---- MODULE Spec2Model ----
(***************************************************************************)
(* Model of the offline/online persistence layer of the YouTube Schedule   *)
(* Manager (Android edition):                                              *)
(*   - the mode switch / failover controller (lib/api/api-switcher.ts),    *)
(*   - the local store (lib/database/sqlite-service.ts, schema.ts),        *)
(*   - the file area manager (FileSystemService),                          *)
(*   - the offline service facade (OfflineApiService).                     *)
(* Every handler is one action; the awaits inside a handler are taken to   *)
(* completion before the next handler starts, except in the specifications *)
(* of overlapping calls, where a call is one action per await.             *)
(***************************************************************************)
EXTENDS Integers, Sequences, FiniteSets, TLC

VARIABLES
  platform,     \* Device.getInfo().platform of the host
  pref,         \* Preferences value stored under OFFLINE_MODE_KEY
  lastReq,      \* what the last controller call did and returned
  profiles,     \* table profiles: id -> row
  videos,       \* table videos: id -> row
  nextProfileId,\* AUTOINCREMENT sequence of table profiles
  nextVideoId,  \* AUTOINCREMENT sequence of table videos
  files,        \* paths present in the file area (Directory.Documents)
  sqlInit,      \* SQLiteService._isInitialized
  facInit,      \* OfflineApiService.isInitialized
  now,          \* wall clock, in milliseconds
  ticks,        \* number of clock advances so far
  last,         \* what the last facade call did and returned
  pre,          \* the row of profiles the last facade call addressed, before the call
  removed,      \* rows of videos the last facade call deleted
  events,       \* store/file calls issued by the last facade call, in order
  markSnap,     \* row of a video before a markVideoAsUploaded that nothing but a revert followed
  userMode,     \* the value the last explicit setOfflineMode of the user stored
  db,           \* SQLiteService.db: "none" (undefined), "open" or "closed"
  schema,       \* the tables exist in the database file youtube_planner.db
  initPc,       \* position of a running SQLiteService.initialize()
  firstRun,     \* Preferences value stored under first_run_completed
  appVersion,   \* Preferences value stored under app_version
  exported,     \* the object the last exportData() returned
  tasks         \* the two calls that can be in flight at once: position and local values

vars == <<platform, pref, lastReq, profiles, videos, nextProfileId, nextVideoId,
          files, sqlInit, facInit, now, ticks, last, pre, removed, events, markSnap,
          userMode, db, schema, initPc, firstRun, appVersion, exported, tasks>>

switchVars == <<platform, pref, lastReq, userMode>>
connVars   == <<db, schema, initPc>>
bootVars   == <<firstRun, appVersion, exported>>
storeVars  == <<profiles, videos, nextProfileId, nextVideoId, files, sqlInit,
                facInit, last, pre, removed, events, markSnap>>
clockVars  == <<now, ticks>>

(***************************************************************************)
(* Bounds of the model                                                     *)
(***************************************************************************)
MaxProfiles == 2      \* rows ever inserted into profiles (facade specification)
MaxPushProfiles == 1  \* rows ever inserted into profiles (rate-limit specification)
MaxVideos   == 2      \* rows ever inserted into videos (facade specification)
MaxStatusVideos == 1  \* rows ever inserted into videos (status specification)
MaxCount    == 2      \* cap on dailyPushCount
MaxTicks    == 2      \* clock advances

(***************************************************************************)
(* Mode switch / failover controller  (api-switcher.ts)                    *)
(***************************************************************************)
Platforms == {"android", "ios", "web"}

\* values the key OFFLINE_MODE_KEY can hold; "none" is the absent key
PrefValues == {"none", "forced", "true", "false"}

\* what the offline handler of a request returns
HandlerResults == {"X1", "X2"}

\* outcome of fetch(): a 2xx response, a rejected fetch, a non-ok status
FetchOutcomes == {"ok", "throw", "status"}

\* isNativeApp(): Device.getInfo() succeeded and names a native platform
isNativeApp(infoOk) ==
  IF infoOk THEN platform \in {"android", "ios"} ELSE FALSE

\* isOfflineMode() that answers offline for the forced value only
isOfflineMode_ForcedOnly(value, getOk, infoOk) ==
  IF ~getOk THEN FALSE ELSE value = "forced"

\* isOfflineMode() given the stored value and whether the reads succeed
isOfflineMode(value, getOk, infoOk) ==
  IF ~getOk THEN FALSE
  ELSE IF value = "forced" THEN TRUE
  ELSE IF ~isNativeApp(infoOk) THEN FALSE
  ELSE value = "true"

\* the value setOfflineMode(enabled, forced) writes
PrefValueOf(enabled, forced) ==
  IF forced THEN "forced" ELSE IF enabled THEN "true" ELSE "false"

\* setOfflineMode(enabled, forced): a failing Preferences.set is swallowed
setOfflineMode(value, enabled, forced, setOk) ==
  IF setOk THEN PrefValueOf(enabled, forced) ELSE value

\* getApiBaseUrl()
getApiBaseUrl(value, getOk, infoOk) ==
  IF isOfflineMode(value, getOk, infoOk) THEN ""
  ELSE IF isNativeApp(infoOk) THEN "CAPACITOR_DEV_URL"
  ELSE "API_BASE_URL"

\* readOk: the reads of the preference and of the device info succeeded;
\* failedOver: a failover has stored offline and no setOfflineMode followed;
\* wasFailedOver: the same, before the call
NoReq == [op |-> "none", handler |-> FALSE, offline |-> FALSE, envOk |-> TRUE, net |-> 0,
          fetched |-> "none", url |-> "", thrown |-> FALSE, result |-> "none",
          hres |-> "none", prefBefore |-> "none", readOk |-> TRUE,
          failedOver |-> FALSE, wasFailedOver |-> FALSE]

\* apiRequest without the test "if (!offlineHandler) throw": the missing handler is called
OfflineResult_NoHandlerCheck(hasHandler, hres) ==
  IF ~hasHandler
  THEN [thrown |-> TRUE, result |-> "TypeError", net |-> 0]
  ELSE [thrown |-> FALSE, result |-> hres, net |-> 0]

\* the offline branch of apiRequest (lines 110-115): what it returns or
\* throws and the number of fetch() calls it makes
OfflineResult(hasHandler, hres) ==
  IF ~hasHandler
  THEN [thrown |-> TRUE, result |-> "NoOfflineHandler", net |-> 0]
  ELSE [thrown |-> FALSE, result |-> hres, net |-> 0]

\* apiRequest without the test "if (!response.ok) throw": the body of a
\* response with a non-success status is returned
OnlineResult_StatusIsResult(hasHandler, hres, fetched) ==
  IF fetched # "throw" THEN [thrown |-> FALSE, result |-> "json", net |-> 1]
  ELSE IF hasHandler THEN [thrown |-> FALSE, result |-> hres, net |-> 1]
  ELSE [thrown |-> TRUE, result |-> "NetworkError", net |-> 1]

\* the online branch of apiRequest (lines 121-150): a caught error is either
\* answered by the offline handler or thrown again as it is
OnlineResult(hasHandler, hres, fetched) ==
  IF fetched = "ok" THEN [thrown |-> FALSE, result |-> "json", net |-> 1]
  ELSE IF hasHandler THEN [thrown |-> FALSE, result |-> hres, net |-> 1]
  ELSE IF fetched = "throw" THEN [thrown |-> TRUE, result |-> "NetworkError", net |-> 1]
  ELSE [thrown |-> TRUE, result |-> "HttpStatusError", net |-> 1]

\* apiRequest switching to offline on every failed request, handler or not
OnlinePref_AlwaysFailover(value, hasHandler, fetched, setOk) ==
  IF fetched # "ok"
  THEN setOfflineMode(value, TRUE, FALSE, setOk)
  ELSE value

\* the preference after the online branch of apiRequest
OnlinePref(value, hasHandler, fetched, setOk) ==
  IF fetched # "ok" /\ hasHandler
  THEN setOfflineMode(value, TRUE, FALSE, setOk)
  ELSE value

\* apiRequest(endpoint, options, offlineHandler?)
ApiRequest(hasHandler, hres, fetched, getOk, infoOk, setOk) ==
  LET offline == isOfflineMode(pref, getOk, infoOk)
      r == IF offline THEN OfflineResult(hasHandler, hres)
           ELSE OnlineResult(hasHandler, hres, fetched)
  IN
  /\ pref' = IF offline THEN pref ELSE OnlinePref(pref, hasHandler, fetched, setOk)
  /\ lastReq' = [op |-> "apiRequest", handler |-> hasHandler, offline |-> offline,
                 envOk |-> getOk /\ infoOk /\ setOk,
                 net |-> r.net,
                 fetched |-> IF offline THEN "none" ELSE fetched,
                 url |-> IF offline THEN "" ELSE getApiBaseUrl(pref, getOk, infoOk),
                 thrown |-> r.thrown, result |-> r.result,
                 hres |-> hres, prefBefore |-> pref, readOk |-> getOk /\ infoOk,
                 failedOver |-> \/ lastReq.failedOver
                                \/ (~offline /\ fetched # "ok" /\ hasHandler /\ setOk),
                 wasFailedOver |-> lastReq.failedOver]
  /\ UNCHANGED userMode
  /\ UNCHANGED <<platform, storeVars, clockVars, tasks, connVars, bootVars>>

\* an explicit setOfflineMode(enabled, forced) by the user or a setting
SetOfflineMode(enabled, forced, setOk) ==
  /\ pref' = setOfflineMode(pref, enabled, forced, setOk)
  /\ lastReq' = [NoReq EXCEPT !.op = "setOfflineMode", !.prefBefore = pref]
  /\ userMode' = IF setOk THEN PrefValueOf(enabled, forced) ELSE userMode
  /\ UNCHANGED <<platform, storeVars, clockVars, tasks, connVars, bootVars>>

DoApiRequest ==
  \E hasHandler \in BOOLEAN, hres \in HandlerResults, fetched \in FetchOutcomes,
     getOk \in BOOLEAN, infoOk \in BOOLEAN, setOk \in BOOLEAN :
       ApiRequest(hasHandler, hres, fetched, getOk, infoOk, setOk)

DoSetOfflineMode ==
  \E enabled \in BOOLEAN, forced \in BOOLEAN, setOk \in BOOLEAN :
       SetOfflineMode(enabled, forced, setOk)

NextSwitch == DoApiRequest \/ DoSetOfflineMode

(***************************************************************************)
(* Local store: table profiles  (sqlite-service.ts, schema.ts)             *)
(***************************************************************************)
\* SQL NULL / JS null of a text column
NULL == "null"

\* lastPushReset is TEXT 'yyyy-MM-dd HH:mm:ss'; a valid text is modelled by
\* the number of whole seconds it denotes, NULL by NoTime, and a text that
\* is not a date by BadTime
NoTime  == 0 - 1
BadTime == 0 - 2

ProfileFields == {"name", "channelName", "channelLink", "dailyPushCount", "lastPushReset"}

has(d, f) == f \in DOMAIN d

\* format(now, 'yyyy-MM-dd HH:mm:ss'): the milliseconds are dropped
FormatDateTime(t) == t \div 1000

\* new Date(text).getTime() of a valid text
NewDate(text) == text * 1000

\* isValid(new Date(text))
isValid(text) == text # BadTime

MsPerHour == 1000 * 60 * 60

\* has24HoursPassed with "diffHours > 24"
has24HoursPassed_Strict(text, t) ==
  IF ~isValid(text) THEN TRUE
  ELSE (t - NewDate(text)) > 24 * MsPerHour

\* has24HoursPassed(new Date(text)) evaluated at time t:
\* diffHours = diffMs / (1000 * 60 * 60); return diffHours >= 24
has24HoursPassed(text, t) ==
  IF ~isValid(text) THEN TRUE
  ELSE (t - NewDate(text)) >= 24 * MsPerHour

\* getProfile(id): the row, or <<>> for undefined
getProfile(P, id) == IF id \in DOMAIN P THEN P[id] ELSE <<>>

\* the row INSERTed by createProfile(profile)
createProfileRow(data) ==
  [name           |-> data.name,
   channelName    |-> data.channelName,
   channelLink    |-> data.channelLink,
   dailyPushCount |-> IF has(data, "dailyPushCount") /\ data.dailyPushCount # 0
                      THEN data.dailyPushCount ELSE 0,
   lastPushReset  |-> IF has(data, "lastPushReset") /\ data.lastPushReset # NoTime
                      THEN data.lastPushReset ELSE NoTime]

\* table profiles after createProfile(profile) assigned id
createProfile(P, id, data) ==
  [i \in DOMAIN P \cup {id} |-> IF i = id THEN createProfileRow(data) ELSE P[i]]

\* the check "profile.f !== undefined" of updateProfile: the field is supplied
Supplied(patch, f) == has(patch, f)

\* table profiles after updateProfile(id, profile): only supplied fields change
updateProfile(P, id, patch) ==
  IF id \notin DOMAIN P \/ (DOMAIN patch) \cap ProfileFields = {} THEN P
  ELSE [P EXCEPT ![id] =
          [f \in ProfileFields |-> IF Supplied(patch, f) THEN patch[f] ELSE @[f]]]

\* shouldReset with the two arms of the conditional swapped for a null lastPushReset
shouldReset_NullKeeps(row, t) ==
  IF row.lastPushReset # NoTime THEN has24HoursPassed(row.lastPushReset, t) ELSE FALSE

\* shouldReset of incrementProfilePushCount (lines 215-217)
shouldReset(row, t) ==
  IF row.lastPushReset # NoTime THEN has24HoursPassed(row.lastPushReset, t) ELSE TRUE

\* the partial record incrementProfilePushCount passes to updateProfile
incrementPatch(row, t) ==
  IF shouldReset(row, t)
  THEN [dailyPushCount |-> 1, lastPushReset |-> FormatDateTime(t)]
  ELSE [dailyPushCount |-> row.dailyPushCount + 1]

\* table profiles after incrementProfilePushCount(profileId) at time t
incrementProfilePushCount(P, id, t) ==
  IF id \notin DOMAIN P THEN P
  ELSE updateProfile(P, id, incrementPatch(P[id], t))

\* resetProfilePushCount that forgets the timestamp
resetPatch_CountOnly(t) == [dailyPushCount |-> 0]

\* the partial record resetProfilePushCount passes to updateProfile
resetPatch(t) == [dailyPushCount |-> 0, lastPushReset |-> FormatDateTime(t)]

\* table profiles after resetProfilePushCount(profileId) at time t
resetProfilePushCount(P, id, t) == updateProfile(P, id, resetPatch(t))

(***************************************************************************)
(* File area manager  (FileSystemService in schema.ts)                     *)
(***************************************************************************)
\* a path "dir/base.ext" is the triple <<dir, base, ext>>; null is NoPath
NoPath == <<>>

\* fileExists(path)
fileExists(F, path) == path \in F

\* files after writeFile(path, data); a failing write throws and writes nothing
writeFile(F, path, ok) == IF ok THEN F \cup {path} ELSE F

\* files after deleteFile(path); a failing delete throws and removes nothing
deleteFile(F, path, ok) == IF ok THEN F \ {path} ELSE F

(***************************************************************************)
(* Local store: table videos  (sqlite-service.ts, schema.ts)               *)
(***************************************************************************)
\* SQL NULL of an INTEGER column
NoNum == 0 - 1

VideoFields == {"profileId", "title", "description", "filePath", "fileName",
                "fileSize", "originalFilePath", "originalFileSize",
                "thumbnailPath", "duration", "scheduleDate", "status",
                "uploadedDate", "youtubeLink", "isFileUploaded", "isPlaceholder"}

\* "video.f || null" of a text column
OrNull(d, f) == IF has(d, f) /\ d[f] # "" THEN d[f] ELSE NULL

\* "video.f || null" of a path column
OrNoPath(d, f) == IF has(d, f) THEN d[f] ELSE NoPath

\* "video.f || null" of an INTEGER column: 0 is falsy
OrNoNum(d, f) == IF has(d, f) /\ d[f] # 0 THEN d[f] ELSE NoNum

\* "video.f || null" of a date column
OrNoTime(d, f) == IF has(d, f) THEN d[f] ELSE NoTime

\* "video.f ? 1 : 0", read back through Boolean(v.f)
Flag(d, f) == IF has(d, f) THEN d[f] ELSE FALSE

\* the row INSERTed by createVideo(video)
createVideoRow(data) ==
  [profileId        |-> data.profileId,
   title            |-> data.title,
   description      |-> data.description,
   filePath         |-> OrNoPath(data, "filePath"),
   fileName         |-> OrNull(data, "fileName"),
   fileSize         |-> OrNoNum(data, "fileSize"),
   originalFilePath |-> OrNoPath(data, "originalFilePath"),
   originalFileSize |-> OrNoNum(data, "originalFileSize"),
   thumbnailPath    |-> OrNoPath(data, "thumbnailPath"),
   duration         |-> OrNull(data, "duration"),
   scheduleDate     |-> data.scheduleDate,
   status           |-> IF has(data, "status") /\ data.status # ""
                        THEN data.status ELSE "pending",
   uploadedDate     |-> OrNoTime(data, "uploadedDate"),
   youtubeLink      |-> OrNull(data, "youtubeLink"),
   isFileUploaded   |-> Flag(data, "isFileUploaded"),
   isPlaceholder    |-> Flag(data, "isPlaceholder")]

\* the table declared without the FOREIGN KEY clause
ForeignKeyOk_Unchecked(P, d) == TRUE

\* FOREIGN KEY (profileId) REFERENCES profiles (id): the insert or update is refused
ForeignKeyOk(P, d) == has(d, "profileId") => d.profileId \in DOMAIN P

\* table videos after createVideo(video) assigned id
createVideo(V, id, data) ==
  [i \in DOMAIN V \cup {id} |-> IF i = id THEN createVideoRow(data) ELSE V[i]]

\* table videos after updateVideo(id, video): only supplied fields change
updateVideo(V, id, patch) ==
  IF id \notin DOMAIN V \/ (DOMAIN patch) \cap VideoFields = {} THEN V
  ELSE [V EXCEPT ![id] =
          [f \in VideoFields |-> IF Supplied(patch, f) THEN patch[f] ELSE @[f]]]

\* table videos after deleteVideo(id)
deleteVideo(V, id) == [i \in DOMAIN V \ {id} |-> V[i]]

\* the foreign key declared without ON DELETE CASCADE
CascadeKeep_None(V, id) == DOMAIN V

\* ON DELETE CASCADE: the rows of videos that survive DELETE FROM profiles WHERE id = ?
CascadeKeep(V, id) == {i \in DOMAIN V : V[i].profileId # id}

\* table profiles after deleteProfile(id)
deleteProfile(P, id) == [i \in DOMAIN P \ {id} |-> P[i]]

\* table videos after deleteProfile(id)
deleteProfileVideos(P, V, id) ==
  IF id \in DOMAIN P THEN [i \in CascadeKeep(V, id) |-> V[i]] ELSE V

(***************************************************************************)
(* Offline service facade  (OfflineApiService)                             *)
(***************************************************************************)
NoSnap == [id |-> 0, row |-> <<>>]

\* table T restricted to the row id, if there is one
RowAt(T, id) == [i \in DOMAIN T \cap {id} |-> T[i]]

\* the rows of table T with ids in S, each with its id
RowsOf(T, S) == { [id |-> i, row |-> T[i]] : i \in S }

\* one store or file call issued by a facade operation
Ev(call, path, id, ok) == [call |-> call, path |-> path, id |-> id, ok |-> ok]

\* the record of the last call: val is the value it resolved with, where a
\* property needs it
Last(op, id, ok, ret) == [op |-> op, id |-> id, ok |-> ok, ret |-> ret, val |-> <<>>]

\* ensureInitialized() -> initialize(): resolves unless the store cannot be opened
Ensured(openOk) == facInit \/ sqlInit \/ openOk

\* ensureInitialized() rejected: the operation has no effect
InitRejects(op, id) ==
  /\ last' = Last(op, id, FALSE, "StoreInitError")
  /\ events' = <<>>
  /\ pre' = <<>>
  /\ removed' = {}
  /\ markSnap' = NoSnap
  /\ UNCHANGED <<profiles, videos, nextProfileId, nextVideoId, files, sqlInit, facInit>>
  /\ UNCHANGED connVars

\* ensureInitialized() resolved: the facade and the store are initialized, the
\* connection is open and the tables exist
Initialized ==
  /\ facInit' = TRUE /\ sqlInit' = TRUE
  /\ db' = "open" /\ schema' = TRUE /\ UNCHANGED initPc

\* thumbnailPath computed by generateThumbnail(videoPath)
thumbnailPathOf(videoPath) == <<"thumbs", videoPath[2] \o "_thumbnail", "jpg">>

\* generateThumbnail(videoPath): the path returned (NoPath for null) and the files left
generateThumbnail(F, videoPath, writeOk) ==
  LET t == thumbnailPathOf(videoPath) IN
  IF fileExists(F, t) THEN [path |-> t, files |-> F]
  ELSE IF writeOk THEN [path |-> t, files |-> writeFile(F, t, TRUE)]
  ELSE [path |-> NoPath, files |-> F]

\* the assignment d.f = v on a JS object
SetField(d, f, v) == [x \in DOMAIN d \cup {f} |-> IF x = f THEN v ELSE d[x]]

\* the JS object d without its property f
Without(d, f) == [x \in DOMAIN d \ {f} |-> d[x]]

\* mapProfileResult(p): the object getProfile(id) returns for a stored row
mapProfileResult(id, row) == SetField(row, "id", id)

\* the object createProfile(profile) returns: { id: result.lastId, ...profile }
createProfileResult(id, data) == SetField(data, "id", id)

\* OfflineApiService.createProfile
ApiCreateProfile(data, openOk) ==
  /\ UNCHANGED <<switchVars, clockVars, tasks, bootVars>>
  /\ IF ~Ensured(openOk) THEN InitRejects("createProfile", 0)
     ELSE /\ Initialized
          /\ pre' = <<>>
          /\ removed' = {}
          /\ profiles' = createProfile(profiles, nextProfileId, data)
          /\ nextProfileId' = nextProfileId + 1
          /\ last' = [Last("createProfile", nextProfileId, TRUE, "row")
                       EXCEPT !.val = createProfileResult(nextProfileId, data)]
          /\ events' = <<>>
          /\ markSnap' = NoSnap
          /\ UNCHANGED <<videos, nextVideoId, files>>

\* OfflineApiService.updateProfile
ApiUpdateProfile(id, patch, openOk) ==
  /\ UNCHANGED <<switchVars, clockVars, tasks, bootVars>>
  /\ IF ~Ensured(openOk) THEN InitRejects("updateProfile", id)
     ELSE /\ Initialized
          /\ pre' = RowAt(profiles, id)
          /\ removed' = {}
          /\ profiles' = updateProfile(profiles, id, patch)
          /\ last' = Last("updateProfile", id, TRUE,
                          IF id \in DOMAIN profiles THEN "row" ELSE "null")
          /\ events' = <<>>
          /\ markSnap' = NoSnap
          /\ UNCHANGED <<videos, nextProfileId, nextVideoId, files>>

\* OfflineApiService.deleteProfile
ApiDeleteProfile(id, openOk) ==
  /\ UNCHANGED <<switchVars, clockVars, tasks, bootVars>>
  /\ IF ~Ensured(openOk) THEN InitRejects("deleteProfile", id)
     ELSE /\ Initialized
          /\ pre' = RowAt(profiles, id)
          /\ removed' = RowsOf(videos, DOMAIN videos \ DOMAIN deleteProfileVideos(profiles, videos, id))
          /\ profiles' = deleteProfile(profiles, id)
          /\ videos' = deleteProfileVideos(profiles, videos, id)
          /\ last' = Last("deleteProfile", id, TRUE,
                          IF id \in DOMAIN profiles THEN "true" ELSE "false")
          /\ events' = <<Ev("deleteProfileRow", NoPath, id, TRUE)>>
          /\ markSnap' = NoSnap
          /\ UNCHANGED <<nextProfileId, nextVideoId, files>>

\* OfflineApiService.incrementProfilePushCount
ApiIncrementProfilePushCount(id, openOk) ==
  /\ id \in DOMAIN profiles => profiles[id].dailyPushCount < MaxCount
  /\ UNCHANGED <<switchVars, clockVars, tasks, bootVars>>
  /\ IF ~Ensured(openOk) THEN InitRejects("incrementProfilePushCount", id)
     ELSE /\ Initialized
          /\ pre' = RowAt(profiles, id)
          /\ removed' = {}
          /\ profiles' = incrementProfilePushCount(profiles, id, now)
          /\ last' = Last("incrementProfilePushCount", id, TRUE,
                          IF id \in DOMAIN profiles THEN "row" ELSE "null")
          /\ events' = <<>>
          /\ markSnap' = NoSnap
          /\ UNCHANGED <<videos, nextProfileId, nextVideoId, files>>

\* OfflineApiService.resetProfilePushCount
ApiResetProfilePushCount(id, openOk) ==
  /\ UNCHANGED <<switchVars, clockVars, tasks, bootVars>>
  /\ IF ~Ensured(openOk) THEN InitRejects("resetProfilePushCount", id)
     ELSE /\ Initialized
          /\ pre' = RowAt(profiles, id)
          /\ removed' = {}
          /\ profiles' = resetProfilePushCount(profiles, id, now)
          /\ last' = Last("resetProfilePushCount", id, TRUE,
                          IF id \in DOMAIN profiles THEN "row" ELSE "null")
          /\ events' = <<>>
          /\ markSnap' = NoSnap
          /\ UNCHANGED <<videos, nextProfileId, nextVideoId, files>>

\* OfflineApiService.createVideo; val notes what the call was given and found:
\* the owner named, whether a profile has that id, the rows of videos before
\* the call
ApiCreateVideo(data, writeOk, openOk) ==
  /\ UNCHANGED <<switchVars, clockVars, tasks, bootVars>>
  /\ IF ~Ensured(openOk) THEN InitRejects("createVideo", 0)
     ELSE LET g  == IF OrNoPath(data, "filePath") # NoPath
                    THEN generateThumbnail(files, data.filePath, writeOk)
                    ELSE [path |-> NoPath, files |-> files]
              d2 == IF g.path # NoPath
                    THEN SetField(data, "thumbnailPath", g.path) ELSE data
              note == [profileId |-> d2.profileId,
                       owned     |-> d2.profileId \in DOMAIN profiles,
                       rows      |-> DOMAIN videos]
          IN
          /\ Initialized
          /\ pre' = <<>>
          /\ removed' = {}
          /\ files' = g.files
          /\ markSnap' = NoSnap
          /\ UNCHANGED <<profiles, nextProfileId>>
          /\ IF ForeignKeyOk(profiles, d2)
             THEN /\ videos' = createVideo(videos, nextVideoId, d2)
                  /\ nextVideoId' = nextVideoId + 1
                  /\ last' = [Last("createVideo", nextVideoId, TRUE, "row")
                               EXCEPT !.val = note]
                  /\ events' = <<Ev("insertVideoRow", NoPath, nextVideoId, TRUE)>>
             ELSE /\ UNCHANGED <<videos, nextVideoId>>
                  /\ last' = [Last("createVideo", 0, FALSE, "ConstraintViolation")
                               EXCEPT !.val = note]
                  /\ events' = <<Ev("insertVideoRow", NoPath, 0, FALSE)>>

\* OfflineApiService.updateVideo
ApiUpdateVideo(id, patch, openOk) ==
  /\ UNCHANGED <<switchVars, clockVars, tasks, bootVars>>
  /\ IF ~Ensured(openOk) THEN InitRejects("updateVideo", id)
     ELSE /\ Initialized
          /\ pre' = <<>>
          /\ removed' = {}
          /\ markSnap' = NoSnap
          /\ UNCHANGED <<profiles, nextProfileId, nextVideoId, files>>
          /\ IF id \in DOMAIN videos /\ ~ForeignKeyOk(profiles, patch)
             THEN /\ UNCHANGED videos
                  /\ last' = Last("updateVideo", id, FALSE, "ConstraintViolation")
                  /\ events' = <<Ev("updateVideoRow", NoPath, id, FALSE)>>
             ELSE /\ videos' = updateVideo(videos, id, patch)
                  /\ last' = Last("updateVideo", id, TRUE,
                                  IF id \in DOMAIN videos THEN "row" ELSE "null")
                  /\ events' = <<Ev("updateVideoRow", NoPath, id, TRUE)>>

\* the deleteFile calls of OfflineApiService.deleteVideo, in order
deleteVideoFileEvents(V, id, fileOk, thumbOk) ==
  IF id \notin DOMAIN V THEN <<>>
  ELSE (IF V[id].filePath # NoPath
        THEN <<Ev("deleteFile", V[id].filePath, id, fileOk)>> ELSE <<>>)
       \o
       (IF V[id].thumbnailPath # NoPath
        THEN <<Ev("deleteFile", V[id].thumbnailPath, id, thumbOk)>> ELSE <<>>)

IsDeleteFile(e) == e.call = "deleteFile"

RECURSIVE ApplyFileEvents(_, _)
\* files after the deleteFile calls of a sequence of events
ApplyFileEvents(F, evs) ==
  IF evs = <<>> THEN F
  ELSE ApplyFileEvents(deleteFile(F, Head(evs).path, Head(evs).ok), Tail(evs))

\* deleteFile awaited without .catch: a failed deletion rejects deleteVideo
deleteFileCaught_Uncaught(ok) == ok

\* "await deleteFile(path).catch(e => console.error(..))": the await resolves
\* whether or not the deletion failed
deleteFileCaught(ok) == TRUE

\* the calls of OfflineApiService.deleteVideo, in order, up to the first
\* deleteFile whose failure is not caught
deleteVideoEvents(V, id, fileOk, thumbOk) ==
  LET fe == deleteVideoFileEvents(V, id, fileOk, thumbOk)
      firstBad == { i \in 1 .. Len(fe) : ~deleteFileCaught(fe[i].ok) }
  IN IF firstBad = {}
     THEN fe \o <<Ev("deleteVideoRow", NoPath, id, TRUE)>>
     ELSE SubSeq(fe, 1, CHOOSE i \in firstBad : \A j \in firstBad : i <= j)

\* OfflineApiService.deleteVideo
ApiDeleteVideo(id, fileOk, thumbOk, openOk) ==
  /\ UNCHANGED <<switchVars, clockVars, tasks, bootVars>>
  /\ IF ~Ensured(openOk) THEN InitRejects("deleteVideo", id)
     ELSE LET evs  == deleteVideoEvents(videos, id, fileOk, thumbOk)
              done == evs # <<>> /\ evs[Len(evs)].call = "deleteVideoRow"
          IN
          /\ Initialized
          /\ files' = ApplyFileEvents(files, SelectSeq(evs, IsDeleteFile))
          /\ videos' = IF done THEN deleteVideo(videos, id) ELSE videos
          /\ pre' = <<>>
          /\ removed' = IF done THEN RowsOf(videos, DOMAIN videos \cap {id}) ELSE {}
          /\ events' = evs
          /\ last' = IF done
                     THEN Last("deleteVideo", id, TRUE,
                               IF id \in DOMAIN videos THEN "true" ELSE "false")
                     ELSE Last("deleteVideo", id, FALSE, "FileAreaError")
          /\ markSnap' = NoSnap
          /\ UNCHANGED <<profiles, nextProfileId, nextVideoId>>

\* format(now, 'yyyy-MM-dd'): the day of the timestamp
FormatDate(t) == t \div (24 * MsPerHour)

\* the partial record markVideoAsUploaded passes to updateVideo
markPatch(t) == [status |-> "completed", uploadedDate |-> FormatDate(t)]

\* revertVideoUpload that leaves the link
revertPatch_KeepsLink == [status |-> "pending", uploadedDate |-> NoTime]

\* the partial record revertVideoUpload passes to updateVideo
revertPatch == [status |-> "pending", uploadedDate |-> NoTime, youtubeLink |-> NULL]

\* OfflineApiService.markVideoAsUploaded
ApiMarkVideoAsUploaded(id, openOk) ==
  /\ UNCHANGED <<switchVars, clockVars, tasks, bootVars>>
  /\ IF ~Ensured(openOk) THEN InitRejects("markVideoAsUploaded", id)
     ELSE /\ Initialized
          /\ pre' = <<>>
          /\ removed' = {}
          /\ videos' = updateVideo(videos, id, markPatch(now))
          /\ last' = Last("markVideoAsUploaded", id, TRUE,
                          IF id \in DOMAIN videos THEN "row" ELSE "null")
          /\ events' = IF id \in DOMAIN videos
                       THEN <<Ev("updateVideoRow", NoPath, id, TRUE)>> ELSE <<>>
          /\ markSnap' = IF id \in DOMAIN videos
                         THEN [id |-> id, row |-> videos[id]] ELSE NoSnap
          /\ UNCHANGED <<profiles, nextProfileId, nextVideoId, files>>

\* OfflineApiService.revertVideoUpload
ApiRevertVideoUpload(id, openOk) ==
  /\ UNCHANGED <<switchVars, clockVars, tasks, bootVars>>
  /\ IF ~Ensured(openOk) THEN InitRejects("revertVideoUpload", id)
     ELSE /\ Initialized
          /\ pre' = <<>>
          /\ removed' = {}
          /\ videos' = updateVideo(videos, id, revertPatch)
          /\ last' = Last("revertVideoUpload", id, TRUE,
                          IF id \in DOMAIN videos THEN "row" ELSE "null")
          /\ events' = IF id \in DOMAIN videos
                       THEN <<Ev("updateVideoRow", NoPath, id, TRUE)>> ELSE <<>>
          /\ markSnap' = IF last.op = "markVideoAsUploaded" /\ markSnap.id = id
                         THEN markSnap ELSE NoSnap
          /\ UNCHANGED <<profiles, nextProfileId, nextVideoId, files>>

\* the clock advances by d milliseconds
Tick(d) ==
  /\ ticks < MaxTicks
  /\ now' = now + d
  /\ ticks' = ticks + 1
  /\ last' = Last("tick", 0, TRUE, "none")
  /\ pre' = <<>>
  /\ removed' = {}
  /\ events' = <<>>
  /\ markSnap' = NoSnap
  /\ UNCHANGED <<switchVars, profiles, videos, nextProfileId, nextVideoId, files,
                 sqlInit, facInit, connVars, bootVars, tasks>>

(***************************************************************************)
(* Inputs                                                                  *)
(***************************************************************************)
ChanProfile == [name |-> "Chan", channelName |-> "@chan", channelLink |-> "https://chan"]

ProfileInputs ==
  { ChanProfile,
    SetField(SetField(ChanProfile, "dailyPushCount", 1), "lastPushReset", BadTime) }

ProfilePatches ==
  { <<>>, [lastPushReset |-> NoTime] }

ProfileIds == 1 .. MaxProfiles
VideoIds   == 1 .. MaxVideos

PathA == <<"videos", "a", "mp4">>
PathB == <<"content", "a", "mov">>

BaseVideo(pid) ==
  [profileId |-> pid, title |-> "t", description |-> "d", filePath |-> NoPath,
   fileName |-> NULL, fileSize |-> NoNum, originalFilePath |-> NoPath,
   originalFileSize |-> NoNum, thumbnailPath |-> NoPath, duration |-> NULL,
   scheduleDate |-> "2024-05-01 10:00:00", status |-> "pending",
   uploadedDate |-> NoTime, youtubeLink |-> NULL,
   isFileUploaded |-> FALSE, isPlaceholder |-> FALSE]

\* the records createVideo is called with where the status fields matter
VideoInputs(pid) ==
  { BaseVideo(pid),
    Without(BaseVideo(pid), "status"),
    [BaseVideo(pid) EXCEPT !.filePath = PathA, !.fileName = "a.mp4",
                           !.fileSize = 5, !.isPlaceholder = TRUE],
    [BaseVideo(pid) EXCEPT !.filePath = PathB, !.status = "completed",
                           !.uploadedDate = 3, !.youtubeLink = "https://youtu.be/x"] }

\* videos scheduled for the first profile, created or not
StatusVideoInputs == VideoInputs(1)

\* the records createVideo is called with where ownership and files matter
OwnedVideoInputs ==
  UNION { { BaseVideo(pid),
            [BaseVideo(pid) EXCEPT !.filePath = PathA, !.fileName = "a.mp4", !.fileSize = 5] }
          : pid \in ProfileIds }

\* partial records that edit the status fields
VideoPatches ==
  { <<>>, [status |-> "missed-schedule"], [youtubeLink |-> "https://youtu.be/y"] }

\* partial records that move a video to another profile
OwnerPatches == { <<>> } \cup { [profileId |-> pid] : pid \in ProfileIds }

\* 23h59m58.5s, 1s and 2s: from 00:00:00.5 the clock reaches 23h59m59s, 24h and 24h+1s
TickDeltas == {1000, 2000, 86398500}

(***************************************************************************)
(* Specifications                                                          *)
(***************************************************************************)
Init ==
  /\ platform \in Platforms
  /\ pref = "none"
  /\ lastReq = NoReq
  /\ profiles = <<>>
  /\ videos = <<>>
  /\ nextProfileId = 1
  /\ nextVideoId = 1
  /\ files = {}
  /\ sqlInit = FALSE
  /\ facInit = FALSE
  /\ now = 500
  /\ ticks = 0
  /\ last = Last("none", 0, TRUE, "none")
  /\ pre = <<>>
  /\ removed = {}
  /\ events = <<>>
  /\ markSnap = NoSnap
  /\ userMode = "none"
  /\ db = "none"
  /\ schema = FALSE
  /\ initPc = "idle"
  /\ firstRun = "none"
  /\ appVersion = "none"
  /\ exported = [profiles |-> <<>>, videos |-> <<>>, made |-> FALSE]
  /\ tasks = [i \in {1, 2} |-> [pc |-> "idle", loc |-> <<>>]]

\* opening the store can fail only when it is not open yet
OpenOutcomes == IF facInit \/ sqlInit THEN {TRUE} ELSE BOOLEAN

\* a deleteFile call can fail only when it is made
DeleteOutcomes(path) == IF path # NoPath THEN BOOLEAN ELSE {TRUE}

\* path column f of row id of videos, NoPath when there is no such row
PathOf(id, f) == IF id \in DOMAIN videos THEN videos[id][f] ELSE NoPath

\* the thumbnail write of createVideo can fail only when it is made
WriteOutcomes(data) ==
  IF OrNoPath(data, "filePath") # NoPath /\ ~fileExists(files, thumbnailPathOf(data.filePath))
  THEN BOOLEAN ELSE {TRUE}

DoCreateProfile ==
  /\ nextProfileId <= MaxPushProfiles
  /\ \E data \in ProfileInputs, openOk \in OpenOutcomes : ApiCreateProfile(data, openOk)

DoCreateOwner ==
  /\ nextProfileId <= MaxProfiles
  /\ \E openOk \in OpenOutcomes : ApiCreateProfile(ChanProfile, openOk)

DoUpdateProfile ==
  \E id \in ProfileIds, patch \in ProfilePatches, openOk \in OpenOutcomes :
      ApiUpdateProfile(id, patch, openOk)

DoDeleteProfile ==
  \E id \in ProfileIds, openOk \in OpenOutcomes : ApiDeleteProfile(id, openOk)

DoIncrementProfilePushCount ==
  \E id \in ProfileIds, openOk \in OpenOutcomes : ApiIncrementProfilePushCount(id, openOk)

DoResetProfilePushCount ==
  \E id \in ProfileIds, openOk \in OpenOutcomes : ApiResetProfilePushCount(id, openOk)

DoCreateVideo ==
  /\ nextVideoId <= MaxVideos
  /\ \E data \in OwnedVideoInputs, openOk \in OpenOutcomes :
       \E writeOk \in WriteOutcomes(data) :
         ApiCreateVideo(data, writeOk, openOk)

DoUpdateVideo ==
  \E id \in VideoIds, patch \in OwnerPatches, openOk \in OpenOutcomes :
      ApiUpdateVideo(id, patch, openOk)

DoScheduleVideo ==
  /\ nextVideoId <= MaxStatusVideos
  /\ \E data \in StatusVideoInputs, openOk \in OpenOutcomes :
       \E writeOk \in WriteOutcomes(data) :
         ApiCreateVideo(data, writeOk, openOk)

DoEditVideo ==
  \E id \in 1 .. MaxStatusVideos, patch \in VideoPatches, openOk \in OpenOutcomes :
      ApiUpdateVideo(id, patch, openOk)

DoDeleteVideo ==
  \E id \in VideoIds, openOk \in OpenOutcomes :
    \E fileOk \in DeleteOutcomes(PathOf(id, "filePath")),
       thumbOk \in DeleteOutcomes(PathOf(id, "thumbnailPath")) :
      ApiDeleteVideo(id, fileOk, thumbOk, openOk)

DoMarkVideoAsUploaded ==
  \E id \in 1 .. MaxStatusVideos, openOk \in OpenOutcomes : ApiMarkVideoAsUploaded(id, openOk)

DoRevertVideoUpload ==
  \E id \in 1 .. MaxStatusVideos, openOk \in OpenOutcomes : ApiRevertVideoUpload(id, openOk)

DoTick == \E d \in TickDeltas : Tick(d)

\* the mode switch / failover controller
SpecSwitch == Init /\ [][NextSwitch]_vars

NextPush ==
  \/ DoCreateProfile
  \/ DoUpdateProfile
  \/ DoIncrementProfilePushCount
  \/ DoResetProfilePushCount
  \/ DoTick

\* the rate-limit window of the profiles
SpecPush == Init /\ [][NextPush]_vars

Next ==
  \/ DoCreateOwner
  \/ DoDeleteProfile
  \/ DoCreateVideo
  \/ DoUpdateVideo
  \/ DoDeleteVideo

\* the offline service facade: ownership of videos and files
Spec == Init /\ [][Next]_vars

NextStatus ==
  \/ DoCreateOwner
  \/ DoScheduleVideo
  \/ DoEditVideo
  \/ DoMarkVideoAsUploaded
  \/ DoRevertVideoUpload

\* the offline service facade: status transitions of a video
SpecStatus == Init /\ [][NextStatus]_vars

(***************************************************************************)
(* Export and import  (OfflineApiService.exportData / importData)          *)
(***************************************************************************)
RECURSIVE OrderBy(_, _, _, _)
\* the ids of the rows S of table T in the order of ORDER BY key ASC|DESC:
\* smallest (largest) text first in SQLite's BINARY collation, then smallest
\* rowid
OrderBy(T, S, key, asc) ==
  LET TextOrder == <<"2024-05-01 10:00:00", "Alpha", "Chan", "My YouTube Channel">>
      TextRank(t) == CHOOSE i \in 1 .. Len(TextOrder) : TextOrder[i] = t
      first == CHOOSE i \in S : \A j \in S :
                 LET ki == TextRank(T[i][key])
                     kj == TextRank(T[j][key])
                 IN IF ki = kj THEN i <= j ELSE IF asc THEN ki < kj ELSE ki > kj
  IN IF S = {} THEN <<>>
     ELSE <<first>> \o OrderBy(T, S \ {first}, key, asc)

\* getProfiles(): SELECT * FROM profiles ORDER BY name ASC
getProfiles(P) ==
  LET ids == OrderBy(P, DOMAIN P, "name", TRUE)
  IN [k \in 1 .. Len(ids) |-> mapProfileResult(ids[k], P[ids[k]])]

\* getVideos(): SELECT * FROM videos ORDER BY scheduleDate DESC, each row
\* through mapVideoResult
getVideos(V) ==
  LET ids == OrderBy(V, DOMAIN V, "scheduleDate", FALSE)
  IN [k \in 1 .. Len(ids) |-> SetField(V[ids[k]], "id", ids[k])]

RECURSIVE importProfiles(_, _, _)
\* the first loop of importData: createProfile for every profile, id dropped
importProfiles(P, nid, items) ==
  IF items = <<>> THEN [profiles |-> P, next |-> nid]
  ELSE importProfiles(createProfile(P, nid, Without(Head(items), "id")),
                      nid + 1, Tail(items))

RECURSIVE importVideos(_, _, _, _)
\* the second loop of importData: createVideo for every video, id dropped; the
\* first refused insert throws and ends the loop
importVideos(P, V, nid, items) ==
  IF items = <<>> THEN [videos |-> V, next |-> nid, ok |-> TRUE]
  ELSE LET d == Without(Head(items), "id") IN
       IF ForeignKeyOk(P, d)
       THEN importVideos(P, createVideo(V, nid, d), nid + 1, Tail(items))
       ELSE [videos |-> V, next |-> nid, ok |-> FALSE]

\* importData(data): the tables it leaves and the boolean it resolves with.
\* A property of data is [kind, items]: an array, or undefined (the key is
\* missing), or a plain object; "for (const x of v)" throws on the last two,
\* and whatever is thrown inside the try block is caught and turned into false
importData(P, V, pid, vid, data) ==
  IF data.profiles.kind # "array"
  THEN [profiles |-> P, videos |-> V, nextP |-> pid, nextV |-> vid, ret |-> "false"]
  ELSE LET ip == importProfiles(P, pid, data.profiles.items) IN
       IF data.videos.kind # "array"
       THEN [profiles |-> ip.profiles, videos |-> V, nextP |-> ip.next,
             nextV |-> vid, ret |-> "false"]
       ELSE LET iv == importVideos(ip.profiles, V, vid, data.videos.items)
            IN [profiles |-> ip.profiles, videos |-> iv.videos, nextP |-> ip.next,
                nextV |-> iv.next, ret |-> IF iv.ok THEN "true" ELSE "false"]

\* OfflineApiService.exportData
ApiExportData(openOk) ==
  /\ UNCHANGED <<switchVars, clockVars, tasks, firstRun, appVersion>>
  /\ IF ~Ensured(openOk)
     THEN InitRejects("exportData", 0) /\ UNCHANGED exported
     ELSE /\ Initialized
          /\ exported' = [profiles |-> getProfiles(profiles),
                          videos   |-> getVideos(videos),
                          made     |-> TRUE]
          /\ last' = Last("exportData", 0, TRUE, "object")
          /\ pre' = <<>>
          /\ removed' = {}
          /\ events' = <<>>
          /\ markSnap' = NoSnap
          /\ UNCHANGED <<profiles, videos, nextProfileId, nextVideoId, files>>

\* OfflineApiService.importData; val notes what the call was given and found:
\* the store had never held a row, both keys were arrays, the object was the
\* last export, the number of rows inserted
ApiImportData(data, openOk) ==
  /\ UNCHANGED <<switchVars, clockVars, tasks, bootVars>>
  /\ IF ~Ensured(openOk) THEN InitRejects("importData", 0)
     ELSE LET r == importData(profiles, videos, nextProfileId, nextVideoId, data)
              note == [fresh     |-> nextProfileId = 1 /\ nextVideoId = 1,
                       arrays    |-> data.profiles.kind = "array"
                                       /\ data.videos.kind = "array",
                       ownExport |-> exported.made
                                       /\ data.profiles.items = exported.profiles
                                       /\ data.videos.items = exported.videos,
                       inserted  |-> (r.nextP - nextProfileId) + (r.nextV - nextVideoId)]
          IN
          /\ Initialized
          /\ profiles' = r.profiles
          /\ videos' = r.videos
          /\ nextProfileId' = r.nextP
          /\ nextVideoId' = r.nextV
          /\ last' = [Last("importData", 0, TRUE, r.ret) EXCEPT !.val = note]
          /\ pre' = <<>>
          /\ removed' = {}
          /\ events' = <<>>
          /\ markSnap' = NoSnap
          /\ UNCHANGED files

\* the application is installed afresh (another device, or its data cleared):
\* an empty database file, file area and Preferences; the exported object is
\* kept outside
Reinstall ==
  /\ pref' = "none" /\ userMode' = "none" /\ lastReq' = NoReq
  /\ firstRun' = "none" /\ appVersion' = "none"
  /\ profiles' = <<>> /\ videos' = <<>>
  /\ nextProfileId' = 1 /\ nextVideoId' = 1
  /\ files' = {}
  /\ sqlInit' = FALSE /\ facInit' = FALSE
  /\ db' = "none" /\ schema' = FALSE /\ initPc' = "idle"
  /\ last' = Last("reinstall", 0, TRUE, "none")
  /\ pre' = <<>>
  /\ removed' = {}
  /\ events' = <<>>
  /\ markSnap' = NoSnap
  /\ UNCHANGED <<platform, clockVars, tasks, exported>>

MaxBackupVideos == 1  \* rows ever inserted into videos by createVideo (backup specification)

\* the objects importData is called with: the last export, an object without
\* the key videos, an object whose profiles is not an array
ImportInputs ==
  LET arr(items) == [kind |-> "array", items |-> items]
      none == [kind |-> "undefined", items |-> <<>>]
      obj  == [kind |-> "object", items |-> <<>>]
  IN (IF exported.made
      THEN {[profiles |-> arr(exported.profiles), videos |-> arr(exported.videos)]}
      ELSE {})
     \cup
     { [profiles |-> arr(getProfiles(createProfile(<<>>, 1, ChanProfile))), videos |-> none],
       [profiles |-> obj, videos |-> arr(<<>>)] }

\* the data of a backup is entered, and profiles are deleted, before the backup
\* is taken: profiles with two names
DoBackupOwner ==
  /\ ~exported.made
  /\ nextProfileId <= MaxProfiles
  /\ \E data \in {ChanProfile, [ChanProfile EXCEPT !.name = "Alpha"]},
        openOk \in OpenOutcomes : ApiCreateProfile(data, openOk)

DoBackupVideo ==
  /\ ~exported.made
  /\ nextVideoId <= MaxBackupVideos
  /\ \E pid \in ProfileIds, openOk \in OpenOutcomes :
       ApiCreateVideo(BaseVideo(pid), TRUE, openOk)

\* updateVideo(id, { fileSize: 0 }): the file of the video is empty
DoZeroSize ==
  /\ ~exported.made
  /\ \E id \in 1 .. MaxBackupVideos, openOk \in OpenOutcomes :
       ApiUpdateVideo(id, [fileSize |-> 0], openOk)

\* one backup is taken
DoExportData ==
  /\ ~exported.made
  /\ \E openOk \in OpenOutcomes : ApiExportData(openOk)

DoImportData ==
  /\ nextProfileId <= MaxProfiles + 1
  /\ nextVideoId <= MaxBackupVideos + 1
  /\ \E data \in ImportInputs, openOk \in OpenOutcomes : ApiImportData(data, openOk)

NextBackup ==
  \/ DoBackupOwner
  \/ (~exported.made /\ DoDeleteProfile)
  \/ DoBackupVideo
  \/ DoZeroSize
  \/ DoExportData
  \/ DoImportData
  \/ (exported.made /\ Reinstall)

\* the offline service facade: export, import and a fresh installation
SpecBackup == Init /\ [][NextBackup]_vars

(***************************************************************************)
(* Connection of the local store  (SQLiteService.initialize,               *)
(* closeConnection, onAppForeground) and direct calls of the store         *)
(***************************************************************************)
MaxConnRows == 1  \* rows ever inserted into each table (connection specification)

\* the operations of SQLiteService that the connection specification calls
StoreOps == {"createProfile", "updateProfile", "deleteProfile",
             "incrementProfilePushCount", "resetProfilePushCount",
             "createVideo", "updateVideo", "deleteVideo"}

\* this.db.query / this.db.run of a store operation: db is undefined until
\* initialize() assigns it, the plugin rejects a call on a connection that
\* is not open, SQLite rejects a statement on a missing table; no operation
\* reads _isInitialized
dbCall ==
  IF db = "none" THEN "TypeError"
  ELSE IF db = "closed" THEN "ConnectionError"
  ELSE IF ~schema THEN "SqlError"
  ELSE "ok"

\* the tables a store operation leaves when its statements run
StoreEffect(op, id) ==
  LET same == [profiles |-> profiles, videos |-> videos,
               nextP |-> nextProfileId, nextV |-> nextVideoId, ret |-> "ok"]
  IN CASE op = "createProfile" ->
            [same EXCEPT !.profiles = createProfile(profiles, nextProfileId, ChanProfile),
                         !.nextP = nextProfileId + 1]
       [] op = "updateProfile" ->
            [same EXCEPT !.profiles = updateProfile(profiles, id, [name |-> "Alpha"])]
       [] op = "deleteProfile" ->
            [same EXCEPT !.profiles = deleteProfile(profiles, id),
                         !.videos = deleteProfileVideos(profiles, videos, id)]
       [] op = "incrementProfilePushCount" ->
            [same EXCEPT !.profiles = incrementProfilePushCount(profiles, id, now)]
       [] op = "resetProfilePushCount" ->
            [same EXCEPT !.profiles = resetProfilePushCount(profiles, id, now)]
       [] op = "createVideo" ->
            IF ForeignKeyOk(profiles, BaseVideo(id))
            THEN [same EXCEPT !.videos = createVideo(videos, nextVideoId, BaseVideo(id)),
                              !.nextV = nextVideoId + 1]
            ELSE [same EXCEPT !.ret = "ConstraintViolation"]
       [] op = "updateVideo" ->
            [same EXCEPT !.videos = updateVideo(videos, id, [status |-> "missed-schedule"])]
       [] op = "deleteVideo" ->
            [same EXCEPT !.videos = deleteVideo(videos, id)]

\* the history variables after a step that is no facade call
NoteStep(op, id, ok, ret, val) ==
  /\ last' = [Last(op, id, ok, ret) EXCEPT !.val = val]
  /\ pre' = <<>>
  /\ removed' = {}
  /\ events' = <<>>
  /\ markSnap' = NoSnap

\* a direct call sqliteService.<op>(id); val notes _isInitialized at the call
\* and whether a table changed
SqliteCall ==
  \E op \in StoreOps, id \in 1 .. MaxConnRows :
    LET r == IF dbCall = "ok" THEN StoreEffect(op, id)
             ELSE [profiles |-> profiles, videos |-> videos, nextP |-> nextProfileId,
                   nextV |-> nextVideoId, ret |-> dbCall]
    IN
    /\ op = "createProfile" => nextProfileId <= MaxConnRows
    /\ op = "createVideo" => nextVideoId <= MaxConnRows
    /\ (op = "incrementProfilePushCount" /\ id \in DOMAIN profiles)
          => profiles[id].dailyPushCount < MaxCount
    /\ profiles' = r.profiles
    /\ videos' = r.videos
    /\ nextProfileId' = r.nextP
    /\ nextVideoId' = r.nextV
    /\ NoteStep(op, id, r.ret = "ok", r.ret,
                [init    |-> sqlInit,
                 changed |-> r.profiles # profiles \/ r.videos # videos])
    /\ UNCHANGED <<switchVars, clockVars, tasks, bootVars, connVars, files, sqlInit, facInit>>

\* SQLiteService.initialize() up to the end of "await this.db.open()":
\* createConnection assigns db, a failing open leaves it not open and rejects
InitializeBegin ==
  \E openOk \in BOOLEAN :
    /\ initPc = "idle"
    /\ ~sqlInit
    /\ db' = IF openOk THEN "open" ELSE "closed"
    /\ initPc' = IF openOk THEN "opened" ELSE "idle"
    /\ NoteStep("initialize", 0, openOk, IF openOk THEN "pending" ELSE "StoreInitError", <<>>)
    /\ UNCHANGED <<switchVars, clockVars, tasks, bootVars, schema, profiles, videos,
                   nextProfileId, nextVideoId, files, sqlInit, facInit>>

\* SQLiteService.initialize() from createTables() to "_isInitialized = true"
InitializeEnd ==
  /\ initPc = "opened"
  /\ schema' = TRUE
  /\ sqlInit' = TRUE
  /\ initPc' = "idle"
  /\ NoteStep("initialize", 0, TRUE, "void", <<>>)
  /\ UNCHANGED <<switchVars, clockVars, tasks, bootVars, db, profiles, videos,
                 nextProfileId, nextVideoId, files, facInit>>

\* "this.isInitialized = false" in closeConnection: isInitialized has a getter
\* and no setter, the assignment throws in class code and _isInitialized keeps
\* its value
assignIsInitialized(cur, v) == cur

\* SQLiteService.closeConnection(): the plugin closes the connection if there
\* is one; every error is caught and logged
CloseConnection ==
  \E closeOk \in BOOLEAN :
    LET closes == closeOk /\ db = "open" IN
    /\ initPc = "idle"
    /\ db' = IF closes THEN "closed" ELSE db
    /\ sqlInit' = IF closes THEN assignIsInitialized(sqlInit, FALSE) ELSE sqlInit
    /\ NoteStep("closeConnection", 0, TRUE, "void", [closed |-> closes])
    /\ UNCHANGED <<switchVars, clockVars, tasks, bootVars, schema, initPc, profiles, videos,
                   nextProfileId, nextVideoId, files, facInit>>

\* onAppForeground(): initialize() runs only if isInitialized reads false;
\* its error is caught and logged
OnAppForeground ==
  \E openOk \in (IF sqlInit THEN {TRUE} ELSE BOOLEAN) :
    /\ initPc = "idle"
    /\ IF sqlInit
       THEN /\ UNCHANGED <<db, schema, sqlInit>>
            /\ NoteStep("onAppForeground", 0, TRUE, "void", [wasClosed |-> db = "closed"])
       ELSE /\ db' = IF openOk THEN "open" ELSE "closed"
            /\ schema' = (schema \/ openOk)
            /\ sqlInit' = openOk
            /\ NoteStep("onAppForeground", 0, openOk, "void", [wasClosed |-> db = "closed"])
    /\ UNCHANGED <<switchVars, clockVars, tasks, bootVars, initPc, profiles, videos,
                   nextProfileId, nextVideoId, files, facInit>>

\* the process is killed and started again: the objects in memory are new,
\* the database file, the file area and Preferences are kept
Restart ==
  /\ db' = "none" /\ initPc' = "idle"
  /\ sqlInit' = FALSE /\ facInit' = FALSE
  /\ NoteStep("restart", 0, TRUE, "none", <<>>)
  /\ UNCHANGED <<switchVars, clockVars, tasks, bootVars, schema, profiles, videos,
                 nextProfileId, nextVideoId, files>>

NextConn ==
  \/ InitializeBegin
  \/ InitializeEnd
  \/ SqliteCall
  \/ CloseConnection
  \/ OnAppForeground
  \/ Restart

\* the connection of the local store and the calls made on it
SpecConn == Init /\ [][NextConn]_vars

(***************************************************************************)
(* Lifecycle bootstrapper  (initializeNativeApp, checkFirstRun)            *)
(***************************************************************************)
APP_VERSION == "1.0.0"

\* the profile checkFirstRun creates
DefaultProfile ==
  [name |-> "My YouTube Channel", channelName |-> "@mychannel",
   channelLink |-> "https://youtube.com/@mychannel",
   dailyPushCount |-> 0, lastPushReset |-> NoTime]

\* checkFirstRun creating the default profile whatever the store holds
seedNeeded_Always(P) == TRUE

\* "profiles.length === 0" of checkFirstRun
seedNeeded(P) == DOMAIN P = {}

\* checkFirstRun(): usable tells whether sqliteService.getProfiles() can run;
\* failAt names the Preferences call that rejects, if one does; the first
\* call that throws ends the function in its catch block
checkFirstRun(usable, failAt) ==
  LET same == [profiles |-> profiles, nextP |-> nextProfileId,
               firstRun |-> firstRun, appVersion |-> appVersion, ok |-> FALSE]
  IN
  IF failAt = "get" THEN same
  ELSE IF firstRun = "none"
  THEN IF ~usable THEN same
       ELSE LET seeded == IF seedNeeded(profiles)
                          THEN [same EXCEPT
                                  !.profiles = createProfile(profiles, nextProfileId, DefaultProfile),
                                  !.nextP = nextProfileId + 1]
                          ELSE same
            IN IF failAt = "setMarker" THEN seeded
               ELSE IF failAt = "setVersion" THEN [seeded EXCEPT !.firstRun = "true"]
               ELSE [seeded EXCEPT !.firstRun = "true", !.appVersion = APP_VERSION,
                                   !.ok = TRUE]
  ELSE IF appVersion = APP_VERSION THEN [same EXCEPT !.ok = TRUE]
       ELSE IF failAt = "setVersion" THEN same
       ELSE [same EXCEPT !.appVersion = APP_VERSION, !.ok = TRUE]

\* a cold start: the process starts with new objects in memory and runs
\* initializeNativeApp() to its end: setOfflineMode(true), then
\* initializeOfflineCapabilities(), then checkFirstRun(); an error of the
\* first two is caught by initializeNativeApp and skips the rest. failAt is
\* drawn from the Preferences calls that are made on this start; val notes
\* what the start found and did
ColdStart ==
  \E setOk \in BOOLEAN, infoOk \in BOOLEAN, openOk \in BOOLEAN :
    LET native  == isNativeApp(infoOk)
        started == ~native \/ openOk
        usable  == native /\ openOk
    IN
    \E failAt \in (IF started THEN {"none", "get", "setMarker", "setVersion"}
                   ELSE {"none"}) :
      LET r == IF started THEN checkFirstRun(usable, failAt)
               ELSE [profiles |-> profiles, nextP |-> nextProfileId,
                     firstRun |-> firstRun, appVersion |-> appVersion, ok |-> FALSE]
      IN
      /\ pref' = setOfflineMode(pref, TRUE, FALSE, setOk)
      /\ lastReq' = NoReq
      /\ db' = IF native THEN (IF openOk THEN "open" ELSE "closed") ELSE "none"
      /\ schema' = (schema \/ usable)
      /\ sqlInit' = usable
      /\ facInit' = usable
      /\ initPc' = "idle"
      /\ profiles' = r.profiles
      /\ nextProfileId' = r.nextP
      /\ firstRun' = r.firstRun
      /\ appVersion' = r.appVersion
      /\ NoteStep("coldStart", 0, r.ok /\ setOk, "void",
                  [foundMarker |-> firstRun # "none",
                   wasEmpty    |-> DOMAIN profiles = {},
                   seeded      |-> r.nextP - nextProfileId,
                   checked     |-> started])
      /\ UNCHANGED <<platform, userMode, clockVars, tasks, videos, nextVideoId, files, exported>>

NextBoot ==
  \/ ColdStart
  \/ DoSetOfflineMode
  \/ DoDeleteProfile

\* the bootstrapper, the mode preference and the profiles the user deletes
SpecBoot == Init /\ [][NextBoot]_vars

(***************************************************************************)
(* Uploaded files  (OfflineApiService.uploadVideoFile,                     *)
(* FileSystemService.deleteFile)                                           *)
(***************************************************************************)
MaxFileVideos == 2  \* rows ever inserted into videos (file specification)

\* OfflineApiService.uploadVideoFile(videoId, filePath): a source outside
\* videos/ is read and written to videos/<file name>; a thumbnail is generated
\* if the video has none; the row is updated. Whatever is thrown after
\* ensureInitialized() is caught and turned into false. val notes whether a
\* read or a write of the copy failed
ApiUploadVideoFile ==
  \E id \in 1 .. MaxFileVideos,
     src \in {<<"content", "a", "mov">>, <<"inbox", "a", "mov">>, <<"videos", "a", "mov">>},
     openOk \in OpenOutcomes :
    LET found  == id \in DOMAIN videos
        copies == found /\ src[1] # "videos"
        dest   == IF copies THEN <<"videos", src[2], src[3]>> ELSE src
    IN
    \E readOk \in (IF copies THEN BOOLEAN ELSE {TRUE}) :
    \E writeOk \in (IF copies /\ readOk THEN BOOLEAN ELSE {TRUE}) :
    \E thumbOk \in (IF found /\ readOk /\ writeOk /\ videos[id].thumbnailPath = NoPath
                       /\ ~fileExists(files, thumbnailPathOf(dest))
                    THEN BOOLEAN ELSE {TRUE}) :
      LET copied == copies /\ readOk /\ writeOk
          F1 == IF copied THEN writeFile(files, dest, TRUE) ELSE files
          g  == IF videos[id].thumbnailPath = NoPath
                THEN generateThumbnail(F1, dest, thumbOk)
                ELSE [path |-> videos[id].thumbnailPath, files |-> F1]
          note == [failed |-> copies /\ ~(readOk /\ writeOk), found |-> found]
      IN
      /\ UNCHANGED <<switchVars, clockVars, tasks, bootVars>>
      /\ IF ~Ensured(openOk) THEN InitRejects("uploadVideoFile", id)
         ELSE /\ Initialized
              /\ pre' = <<>>
              /\ removed' = {}
              /\ markSnap' = NoSnap
              /\ UNCHANGED <<profiles, nextProfileId, nextVideoId>>
              /\ IF ~found \/ note.failed
                 THEN /\ UNCHANGED <<videos, files>>
                      /\ events' = <<>>
                      /\ last' = [Last("uploadVideoFile", id, TRUE, "false")
                                   EXCEPT !.val = note]
                 ELSE /\ files' = g.files
                      /\ videos' = updateVideo(videos, id,
                                     [filePath |-> dest, isFileUploaded |-> TRUE,
                                      thumbnailPath |-> g.path])
                      /\ events' = <<Ev("updateVideoRow", NoPath, id, TRUE)>>
                      /\ last' = [Last("uploadVideoFile", id, TRUE, "true")
                                   EXCEPT !.val = note]

\* a direct call filesystemService.deleteFile(path): Filesystem.deleteFile
\* rejects for a path that names no file, and on an I/O error; deleteFile
\* makes no fileExists test, logs the error and throws it again. val notes
\* whether the file was there, whether the plugin met an I/O error, and the
\* files before the call
FsDeleteFile ==
  \E path \in {<<"videos", "a", "mov">>, thumbnailPathOf(<<"videos", "a", "mov">>)},
     ioOk \in BOOLEAN :
    LET ok == ioOk /\ fileExists(files, path) IN
    /\ files' = deleteFile(files, path, ok)
    /\ last' = [Last("deleteFile", 0, ok, IF ok THEN "void" ELSE "FileAreaError")
                 EXCEPT !.val = [path |-> path, existed |-> fileExists(files, path),
                                 ioOk |-> ioOk, before |-> files]]
    /\ pre' = <<>>
    /\ removed' = {}
    /\ events' = <<>>
    /\ markSnap' = NoSnap
    /\ UNCHANGED <<switchVars, clockVars, tasks, bootVars, connVars, profiles, videos,
                   nextProfileId, nextVideoId, sqlInit, facInit>>

\* a video is created without a file; the file comes with uploadVideoFile
DoCreateBareVideo ==
  /\ nextVideoId <= MaxFileVideos
  /\ \E openOk \in OpenOutcomes : ApiCreateVideo(BaseVideo(1), TRUE, openOk)

NextFiles ==
  \/ DoCreateProfile
  \/ DoCreateBareVideo
  \/ ApiUploadVideoFile
  \/ DoDeleteVideo
  \/ FsDeleteFile

\* the offline service facade and the file area: uploads and deletions
SpecFiles == Init /\ [][NextFiles]_vars

(***************************************************************************)
(* Overlapping calls of SQLiteService.initialize(): each call is one       *)
(* action per await                                                        *)
(***************************************************************************)
\* initialize() that hands the promise of a running call to the next caller
passesGuard_Serialized(flag, inFlight) == ~flag /\ ~inFlight

\* "if (this._isInitialized) return;", the only test initialize() makes
passesGuard(flag, inFlight) == ~flag

\* call i enters initialize(): it returns at once or goes on to Device.getInfo();
\* loc notes whether the other call was in flight, and the steps this call ran
InitializeEnter ==
  \E i \in DOMAIN tasks :
    LET inFlight == \E j \in DOMAIN tasks : tasks[j].pc \in {"entered", "opened"} IN
    /\ tasks[i].pc = "idle"
    /\ tasks' = [tasks EXCEPT ![i] =
                   [pc  |-> IF passesGuard(sqlInit, inFlight) THEN "entered" ELSE "returned",
                    loc |-> [overlap |-> inFlight, opened |-> FALSE, created |-> FALSE]]]
    /\ NoteStep("initialize", i, TRUE, "pending", <<>>)
    /\ UNCHANGED <<switchVars, clockVars, bootVars, connVars, profiles, videos,
                   nextProfileId, nextVideoId, files, sqlInit, facInit>>

\* call i runs initializeNative() / initializeWeb(): createConnection and
\* "await this.db.open()"; a failure is thrown to the caller of initialize()
InitializeOpen ==
  \E i \in DOMAIN tasks, openOk \in BOOLEAN :
    /\ tasks[i].pc = "entered"
    /\ db' = IF openOk THEN "open" ELSE "closed"
    /\ tasks' = [tasks EXCEPT ![i].pc = IF openOk THEN "opened" ELSE "failed",
                              ![i].loc.opened = openOk]
    /\ NoteStep("initialize", i, openOk, IF openOk THEN "pending" ELSE "StoreInitError", <<>>)
    /\ UNCHANGED <<switchVars, clockVars, bootVars, schema, initPc, profiles, videos,
                   nextProfileId, nextVideoId, files, sqlInit, facInit>>

\* call i runs createTables() and sets _isInitialized
InitializeCreate ==
  \E i \in DOMAIN tasks :
    /\ tasks[i].pc = "opened"
    /\ schema' = TRUE
    /\ sqlInit' = TRUE
    /\ tasks' = [tasks EXCEPT ![i].pc = "done", ![i].loc.created = TRUE]
    /\ NoteStep("initialize", i, TRUE, "void", <<>>)
    /\ UNCHANGED <<switchVars, clockVars, bootVars, db, initPc, profiles, videos,
                   nextProfileId, nextVideoId, files, facInit>>

NextInitRace ==
  \/ InitializeEnter
  \/ InitializeOpen
  \/ InitializeCreate

\* two calls of initialize() on the one store object
SpecInitRace == Init /\ [][NextInitRace]_vars

(***************************************************************************)
(* Overlapping calls of SQLiteService.incrementProfilePushCount(): the     *)
(* read of the profile and the write of the count are two actions          *)
(***************************************************************************)
\* a profile is created whose window is open (lastPushReset 1970-01-01
\* 00:00:00, the clock starts half a second later) or was never opened
DoCreateCounted ==
  /\ nextProfileId <= MaxPushProfiles
  /\ \E data \in {ChanProfile, SetField(ChanProfile, "lastPushReset", 0)},
        openOk \in OpenOutcomes : ApiCreateProfile(data, openOk)

\* call i runs "await this.getProfile(profileId)" and, with the row it got,
\* builds the partial record it passes to updateProfile
IncrementRead ==
  \E i \in DOMAIN tasks, id \in 1 .. MaxPushProfiles :
    /\ tasks[i].pc = "idle"
    /\ id \in DOMAIN profiles
    /\ profiles[id].dailyPushCount < MaxCount
    /\ tasks' = [tasks EXCEPT ![i] =
                   [pc  |-> "read",
                    loc |-> [id    |-> id,
                             patch |-> incrementPatch(profiles[id], now),
                             kept  |-> ~shouldReset(profiles[id], now)]]]
    /\ NoteStep("incrementProfilePushCount.read", id, TRUE, "pending", <<>>)
    /\ UNCHANGED <<switchVars, clockVars, bootVars, connVars, profiles, videos,
                   nextProfileId, nextVideoId, files, sqlInit, facInit>>

\* the UPDATE of call i runs; val notes whether the call counted within the
\* window, and the stored count before and after the UPDATE
IncrementWrite ==
  \E i \in DOMAIN tasks :
    LET id == tasks[i].loc.id
        P2 == updateProfile(profiles, id, tasks[i].loc.patch)
    IN
    /\ tasks[i].pc = "read"
    /\ profiles' = P2
    /\ tasks' = [tasks EXCEPT ![i] = [pc |-> "idle", loc |-> <<>>]]
    /\ NoteStep("incrementProfilePushCount.update", id, TRUE, "row",
                [kept   |-> tasks[i].loc.kept,
                 before |-> profiles[id].dailyPushCount,
                 after  |-> P2[id].dailyPushCount])
    /\ UNCHANGED <<switchVars, clockVars, bootVars, connVars, videos,
                   nextProfileId, nextVideoId, files, sqlInit, facInit>>

NextPushRace ==
  \/ DoCreateCounted
  \/ IncrementRead
  \/ IncrementWrite
  \/ DoTick

\* two calls of incrementProfilePushCount in flight on one store
SpecPushRace == Init /\ [][NextPushRace]_vars

(***************************************************************************)
(* Overlapping calls of initializeNativeApp(): the effect of the entry     *)
(* point runs twice under React.StrictMode; checkFirstRun is one action    *)
(* per await                                                               *)
(***************************************************************************)
\* call i runs initializeNativeApp() up to the call of checkFirstRun():
\* setOfflineMode(true), then initializeOfflineCapabilities(), which returns
\* at once when the facade is already initialized; an error is caught by
\* initializeNativeApp and ends the call. loc holds what checkFirstRun reads
BootEnter ==
  \E i \in DOMAIN tasks, setOk \in BOOLEAN, infoOk \in BOOLEAN, openOk \in OpenOutcomes :
    LET native == isNativeApp(infoOk) IN
    /\ tasks[i].pc = "idle"
    /\ pref' = setOfflineMode(pref, TRUE, FALSE, setOk)
    /\ IF native /\ openOk
       THEN Initialized
       ELSE /\ db' = IF native THEN "closed" ELSE db
            /\ UNCHANGED <<schema, initPc, sqlInit, facInit>>
    /\ tasks' = [tasks EXCEPT ![i] =
                   [pc  |-> IF native /\ ~openOk THEN "failed" ELSE "entered",
                    loc |-> [found |-> FALSE, empty |-> FALSE, inserted |-> FALSE]]]
    /\ NoteStep("initializeNativeApp", i, ~native \/ openOk, "pending", <<>>)
    /\ UNCHANGED <<platform, lastReq, userMode, clockVars, bootVars, profiles, videos,
                   nextProfileId, nextVideoId, files>>

\* call i reads first_run_completed; when the marker is there it compares
\* and updates app_version and checkFirstRun is over; a failing read is caught
FirstRunGet ==
  \E i \in DOMAIN tasks, getOk \in BOOLEAN :
    LET found == firstRun # "none" IN
    /\ tasks[i].pc = "entered"
    /\ tasks' = [tasks EXCEPT ![i].pc = IF getOk /\ ~found THEN "got" ELSE "done",
                              ![i].loc.found = getOk /\ found]
    /\ appVersion' = IF getOk /\ found THEN APP_VERSION ELSE appVersion
    /\ NoteStep("checkFirstRun", i, getOk, "pending", <<>>)
    /\ UNCHANGED <<switchVars, clockVars, connVars, firstRun, exported, profiles, videos,
                   nextProfileId, nextVideoId, files, sqlInit, facInit>>

\* call i runs "await sqliteService.getProfiles()" and tests profiles.length;
\* a failing query is caught and ends checkFirstRun
FirstRunList ==
  \E i \in DOMAIN tasks :
    /\ tasks[i].pc = "got"
    /\ tasks' = [tasks EXCEPT ![i].pc = IF dbCall = "ok" THEN "listed" ELSE "done",
                              ![i].loc.empty = (dbCall = "ok" /\ seedNeeded(profiles))]
    /\ NoteStep("checkFirstRun", i, dbCall = "ok", "pending", <<>>)
    /\ UNCHANGED <<switchVars, clockVars, connVars, bootVars, profiles, videos,
                   nextProfileId, nextVideoId, files, sqlInit, facInit>>

\* the INSERT of call i runs, if the call found no profile
FirstRunSeed ==
  \E i \in DOMAIN tasks :
    /\ tasks[i].pc = "listed"
    /\ profiles' = IF tasks[i].loc.empty
                   THEN createProfile(profiles, nextProfileId, DefaultProfile)
                   ELSE profiles
    /\ nextProfileId' = IF tasks[i].loc.empty THEN nextProfileId + 1 ELSE nextProfileId
    /\ tasks' = [tasks EXCEPT ![i].pc = "seeded", ![i].loc.inserted = tasks[i].loc.empty]
    /\ NoteStep("checkFirstRun", i, TRUE, "pending", <<>>)
    /\ UNCHANGED <<switchVars, clockVars, connVars, bootVars, videos, nextVideoId,
                   files, sqlInit, facInit>>

\* call i stores first_run_completed and app_version
FirstRunMark ==
  \E i \in DOMAIN tasks :
    /\ tasks[i].pc = "seeded"
    /\ firstRun' = "true"
    /\ appVersion' = APP_VERSION
    /\ tasks' = [tasks EXCEPT ![i].pc = "done"]
    /\ NoteStep("checkFirstRun", i, TRUE, "void", <<>>)
    /\ UNCHANGED <<switchVars, clockVars, connVars, exported, profiles, videos,
                   nextProfileId, nextVideoId, files, sqlInit, facInit>>

NextBootRace ==
  \/ BootEnter
  \/ FirstRunGet
  \/ FirstRunList
  \/ FirstRunSeed
  \/ FirstRunMark

\* two calls of initializeNativeApp() on a first run
SpecBootRace == Init /\ [][NextBootRace]_vars

(***************************************************************************)
(* Properties                                                              *)
(***************************************************************************)
Day == 24 * MsPerHour

\* the last controller call was an apiRequest that found the mode online
OnlineRequest == lastReq.op = "apiRequest" /\ ~lastReq.offline

\* a mode read (isOfflineMode) made in the current state
ModeReadsOffline == isOfflineMode(pref, TRUE, TRUE)

\* C1: after an apiRequest in online mode whose network call throws and that
\* has an offline handler, the caller got the handler's result, not the
\* error, and a mode read returns offline, on every platform (here with the
\* Preferences and Device plugins answering every call of the request).
C1_FailoverGoesOffline ==
  (OnlineRequest /\ lastReq.envOk /\ lastReq.fetched = "throw" /\ lastReq.handler)
    => /\ ~lastReq.thrown
       /\ lastReq.result = lastReq.hres
       /\ ModeReadsOffline

\* C2: an apiRequest in online mode without an offline handler whose network
\* call fails throws that very error and leaves the stored preference as it was.
C2_NoHandlerPropagates ==
  (OnlineRequest /\ lastReq.fetched # "ok" /\ ~lastReq.handler)
    => /\ lastReq.thrown
       /\ lastReq.result = (IF lastReq.fetched = "throw"
                            THEN "NetworkError" ELSE "HttpStatusError")
       /\ pref = lastReq.prefBefore

C2_Witness ==
  /\ OnlineRequest /\ lastReq.fetched = "throw" /\ ~lastReq.handler
  /\ lastReq.thrown /\ lastReq.result = "NetworkError"
  /\ isNativeApp(TRUE) /\ pref = "false"

\* C3: an apiRequest that finds the mode offline makes no network call; with
\* a handler it returns the handler's result, without one it fails with
\* NoOfflineHandler.
C3_OfflineNoNetwork ==
  (lastReq.op = "apiRequest" /\ lastReq.offline)
    => /\ lastReq.net = 0
       /\ lastReq.fetched = "none"
       /\ lastReq.handler => (~lastReq.thrown /\ lastReq.result = lastReq.hres)
       /\ ~lastReq.handler => (lastReq.thrown /\ lastReq.result = "NoOfflineHandler")
       /\ pref = lastReq.prefBefore

C3_Witness ==
  /\ lastReq.op = "apiRequest" /\ lastReq.offline /\ ~lastReq.handler
  /\ lastReq.thrown /\ lastReq.result = "NoOfflineHandler" /\ lastReq.net = 0

\* the last facade call was an incrementProfilePushCount on an existing profile
Incremented ==
  last.op = "incrementProfilePushCount" /\ last.ok /\ last.id \in DOMAIN pre

\* milliseconds between the lastPushReset the increment loaded and the call
AgeAtCall == now - NewDate(pre[last.id].lastPushReset)

\* the row after a call that opened a new window
WindowOpened ==
  profiles[last.id] = [pre[last.id] EXCEPT !.dailyPushCount = 1,
                                           !.lastPushReset = FormatDateTime(now)]

\* the row after a call that counted within the window
WindowKept ==
  profiles[last.id] = [pre[last.id] EXCEPT !.dailyPushCount = @ + 1]

\* C4: incrementProfilePushCount on an existing profile: with lastPushReset
\* null, or 24h+1s in the past, the count becomes 1 and lastPushReset becomes
\* now; with lastPushReset 23h59m59s in the past the count becomes previous+1
\* and lastPushReset stays.
C4_IncrementWindow ==
  Incremented =>
    /\ pre[last.id].lastPushReset = NoTime => WindowOpened
    /\ (pre[last.id].lastPushReset >= 0 /\ AgeAtCall = Day + 1000) => WindowOpened
    /\ (pre[last.id].lastPushReset >= 0 /\ AgeAtCall = Day - 1000) => WindowKept

C4_Witness ==
  /\ Incremented
  /\ pre[last.id].lastPushReset >= 0 /\ AgeAtCall = Day + 1000
  /\ pre[last.id].dailyPushCount >= 1
  /\ profiles[last.id].dailyPushCount = 1
  /\ profiles[last.id].lastPushReset = FormatDateTime(now)

\* C5 as claimed: an incrementProfilePushCount made exactly 24h00m00s after
\* lastPushReset sets the count to count+1 and leaves lastPushReset.
C5_ExactDayKeepsWindow ==
  (Incremented /\ pre[last.id].lastPushReset >= 0 /\ AgeAtCall = Day) => WindowKept

\* C5 amended: the window resets when 24 hours or more have elapsed since
\* lastPushReset: an increment exactly 24h00m00s after lastPushReset, or
\* later, sets the count to 1 and lastPushReset to now; an earlier one sets
\* the count to count+1 and leaves lastPushReset.
C5_ResetAtOneDay ==
  (Incremented /\ pre[last.id].lastPushReset >= 0)
    => /\ AgeAtCall >= Day => WindowOpened
       /\ AgeAtCall < Day => WindowKept

C5_Witness ==
  /\ Incremented
  /\ pre[last.id].lastPushReset >= 0 /\ AgeAtCall = Day
  /\ pre[last.id].dailyPushCount >= 1
  /\ profiles[last.id].dailyPushCount = 1
  /\ profiles[last.id].lastPushReset = FormatDateTime(now)

\* C6: resetProfilePushCount on an existing profile sets dailyPushCount to 0
\* and lastPushReset to now, whatever they were, and changes no other field.
C6_ResetCount ==
  (last.op = "resetProfilePushCount" /\ last.ok /\ last.id \in DOMAIN pre)
    => profiles[last.id] = [pre[last.id] EXCEPT !.dailyPushCount = 0,
                                                !.lastPushReset = FormatDateTime(now)]

C6_Witness ==
  /\ last.op = "resetProfilePushCount" /\ last.ok /\ last.id \in DOMAIN pre
  /\ pre[last.id].dailyPushCount > 0
  /\ pre[last.id].lastPushReset >= 0
  /\ pre[last.id].lastPushReset # FormatDateTime(now)
  /\ profiles[last.id].dailyPushCount = 0

\* the last facade call was a deleteProfile that deleted the profile
ProfileDeleted == last.op = "deleteProfile" /\ last.ok /\ last.ret = "true"

\* C7: after a deleteProfile(id) that succeeded no video with profileId = id
\* is left in the store.
C7_CascadeDelete ==
  ProfileDeleted => \A v \in DOMAIN videos : videos[v].profileId # last.id

C7_Witness ==
  /\ ProfileDeleted
  /\ Cardinality(removed) = 1
  /\ \E v \in DOMAIN videos : videos[v].profileId # last.id

\* a deleteFile(path) call is among the first n calls of the last operation
DeleteAttempted(path, n) ==
  \E i \in 1 .. n : events[i].call = "deleteFile" /\ events[i].path = path

\* C8: a deleteProfile through the facade attempts the deletion of the file
\* and of the thumbnail of every video that belonged to the profile.
C8_CascadeDeletesFiles ==
  ProfileDeleted =>
    \A r \in removed :
      /\ r.row.filePath # NoPath => DeleteAttempted(r.row.filePath, Len(events))
      /\ r.row.thumbnailPath # NoPath => DeleteAttempted(r.row.thumbnailPath, Len(events))

\* C9: a facade deleteVideo on an existing video attempts the deletion of its
\* file and of its thumbnail before it removes the record, and it removes the
\* record also when a file deletion fails.
C9_DeleteVideoBestEffort ==
  (last.op = "deleteVideo" /\ last.ret # "StoreInitError")
    => /\ last.ok
       /\ last.id \notin DOMAIN videos
       /\ events # <<>> /\ events[Len(events)].call = "deleteVideoRow"
       /\ \A r \in removed :
            /\ r.id = last.id
            /\ r.row.filePath # NoPath
                 => DeleteAttempted(r.row.filePath, Len(events) - 1)
            /\ r.row.thumbnailPath # NoPath
                 => DeleteAttempted(r.row.thumbnailPath, Len(events) - 1)

C9_Witness ==
  /\ last.op = "deleteVideo" /\ last.ok /\ last.ret = "true"
  /\ Cardinality(removed) = 1
  /\ Len(events) = 3
  /\ ~events[1].ok /\ ~events[2].ok
  /\ last.id \notin DOMAIN videos

\* the last two facade calls were markVideoAsUploaded(id) and then
\* revertVideoUpload(id), on an existing video
MarkedThenReverted ==
  last.op = "revertVideoUpload" /\ last.ok /\ markSnap.id # 0 /\ markSnap.id = last.id

\* C10: markVideoAsUploaded(id) followed immediately by revertVideoUpload(id)
\* leaves the video with status pending, uploadedDate null and youtubeLink
\* null, and every other field as it was before the mark.
C10_MarkRevert ==
  MarkedThenReverted =>
    /\ last.id \in DOMAIN videos
    /\ videos[last.id] = [markSnap.row EXCEPT !.status = "pending",
                                              !.uploadedDate = NoTime,
                                              !.youtubeLink = NULL]

C10_Witness ==
  /\ MarkedThenReverted
  /\ markSnap.row.youtubeLink # NULL
  /\ markSnap.row.status = "missed-schedule"
  /\ videos[last.id].status = "pending"
  /\ videos[last.id].youtubeLink = NULL

\* C11 as claimed: in every state reached through the facade a video has a
\* non-null uploadedDate or a non-null youtubeLink only if its status is
\* completed.
C11_UploadFieldsOnlyWhenCompleted ==
  \A v \in DOMAIN videos :
    (videos[v].uploadedDate # NoTime \/ videos[v].youtubeLink # NULL)
      => videos[v].status = "completed"

\* C20 as claimed: the record createProfile returns has every field of the
\* stored record, the assigned id included, each equal to what
\* getProfile(returned id) reads back.
C20_CreateProfileReturnsStored ==
  (last.op = "createProfile" /\ last.ok)
    => /\ has(last.val, "id")
       /\ last.val.id \in DOMAIN profiles
       /\ \A f \in ProfileFields \cup {"id"} :
            /\ has(last.val, f)
            /\ last.val[f] = mapProfileResult(last.val.id, getProfile(profiles, last.val.id))[f]

\* the records of A and of B match one to one in every field other than id
SameModuloIds(A, B) ==
  /\ Len(A) = Len(B)
  /\ \E f \in [1 .. Len(A) -> 1 .. Len(B)] :
       /\ \A i, j \in 1 .. Len(A) : f[i] = f[j] => i = j
       /\ \A i \in 1 .. Len(A) : Without(A[i], "id") = Without(B[f[i]], "id")

\* the last facade call imported the object the last exportData returned
\* into a store that had never held a row
ImportedOwnExport ==
  last.op = "importData" /\ last.ret # "StoreInitError"
    /\ last.val.ownExport /\ last.val.fresh

\* C12 as claimed: importData of an export into an empty store succeeds and
\* leaves profiles and videos that match the exported records one to one in
\* every field other than id.
C12_ExportImportRoundTrip ==
  ImportedOwnExport =>
    /\ last.ret = "true"
    /\ SameModuloIds(getProfiles(profiles), exported.profiles)
    /\ SameModuloIds(getVideos(videos), exported.videos)

\* C13 as claimed: importData of an object whose profiles or videos is
\* missing or not an array fails and leaves the store unchanged.
C13_ImportValidatesShape ==
  (last.op = "importData" /\ last.ret # "StoreInitError" /\ ~last.val.arrays)
    => /\ last.ret # "true"
       /\ last.val.inserted = 0

\* C14: every stored video's profileId is the id of an existing profile; a
\* createVideo naming a profileId that matches no profile fails with
\* ConstraintViolation and inserts nothing, and an importData that holds such
\* a video does not succeed.
C14_ForeignKeyOnInsert ==
  /\ \A v \in DOMAIN videos : videos[v].profileId \in DOMAIN profiles
  /\ (last.op = "createVideo" /\ last.ret # "StoreInitError" /\ ~last.val.owned)
       => /\ ~last.ok
          /\ last.ret = "ConstraintViolation"
          /\ DOMAIN videos = last.val.rows
  /\ (last.op = "importData" /\ last.ret = "true")
       => \A k \in 1 .. Len(getVideos(videos)) :
            getVideos(videos)[k].profileId \in DOMAIN profiles

C14_Witness ==
  /\ last.op = "createVideo" /\ last.ret = "ConstraintViolation"
  /\ ~last.val.owned
  /\ profiles # <<>>
  /\ last.val.profileId \notin DOMAIN profiles
  /\ DOMAIN videos = last.val.rows

\* C15 as claimed: a Local Store operation called before initialize() has
\* completed fails and has no effect on the store.
C15_NotInitializedRejects ==
  (last.op \in StoreOps /\ ~last.val.init)
    => /\ ~last.ok
       /\ ~last.val.changed

\* C16 as claimed: after closeConnection has closed the connection the store
\* reports not initialized, and after an onAppForeground that completed
\* without an error the store is initialized and its connection open.
C16_ForegroundReopens ==
  /\ (last.op = "closeConnection" /\ last.val.closed) => ~sqlInit
  /\ (last.op = "onAppForeground" /\ last.ok) => (sqlInit /\ db = "open")

\* the last step was a cold start on which no call failed
StartedClean == last.op = "coldStart" /\ last.ok

C18_AutoDetect ==
  (lastReq.op = "apiRequest" /\ lastReq.envOk) =>
    /\ (~isNativeApp(TRUE) /\ lastReq.prefBefore # "forced") => ~lastReq.offline
    /\ (isNativeApp(TRUE) /\ lastReq.prefBefore \in {"true", "false"})
         => (lastReq.offline <=> lastReq.prefBefore = "true")
    /\ (isNativeApp(TRUE) /\ lastReq.prefBefore = "none") => lastReq.offline

\* C19 as claimed: once the user has forced offline, and until the user sets
\* the mode again, every mode read returns offline, on every platform and
\* also after a cold start.
C19_ForcedStaysOffline ==
  userMode = "forced" => ModeReadsOffline

\* C21 as claimed: deleteFile(path) on a path that names no file, with the
\* file system working, succeeds and leaves every file as it was.
C21_DeleteAbsentSucceeds ==
  (last.op = "deleteFile" /\ ~last.val.existed /\ last.val.ioOk)
    => /\ last.ok
       /\ files = last.val.before

\* C22 as claimed: no two distinct videos reference the same file-area path,
\* as filePath or as thumbnailPath.
C22_PathsExclusive ==
  \A v, w \in DOMAIN videos :
    \A f, g \in {"filePath", "thumbnailPath"} :
      (v # w /\ videos[v][f] # NoPath) => videos[v][f] # videos[w][g]

\* C23 as claimed: an uploadVideoFile whose read of the source or write of
\* the copy fails is rejected, it does not complete with a normal result.
C23_UploadFailureRejects ==
  (last.op = "uploadVideoFile" /\ last.ret # "StoreInitError" /\ last.val.failed)
    => ~last.ok

\* C24 as claimed: a stored status is pending, completed or missed-schedule
\* and a step changes it only from pending to completed or missed-schedule
\* and from completed or missed-schedule to pending; a markVideoAsUploaded
\* that finds the video finds it pending, a revertVideoUpload finds it
\* completed.
C24_StatusTransitions ==
  [][ /\ \A v \in DOMAIN videos' :
           videos'[v].status \in {"pending", "completed", "missed-schedule"}
      /\ \A v \in DOMAIN videos \cap DOMAIN videos' :
           \/ videos'[v].status = videos[v].status
           \/ <<videos[v].status, videos'[v].status>> \in
                {<<"pending", "completed">>, <<"completed", "pending">>,
                 <<"pending", "missed-schedule">>, <<"missed-schedule", "pending">>}
      /\ (last'.op = "markVideoAsUploaded" /\ last'.ok /\ last'.id \in DOMAIN videos)
           => videos[last'.id].status = "pending"
      /\ (last'.op = "revertVideoUpload" /\ last'.ok /\ last'.id \in DOMAIN videos)
           => videos[last'.id].status = "completed"
    ]_vars

\* C25: the flag _isInitialized does not serialize overlapping first calls of
\* initialize(): a call that enters while another call is in flight passes
\* the guard like the first one, and a call returns at the guard only when
\* the flag is set; both calls can run the open and the create-tables steps.
C25_GuardDoesNotSerialize ==
  \A i \in DOMAIN tasks :
    tasks[i].pc # "idle" =>
      /\ tasks[i].loc.overlap => tasks[i].pc # "returned"
      /\ tasks[i].pc = "returned" => sqlInit

C25_Witness ==
  /\ \A i \in DOMAIN tasks :
       tasks[i].pc = "done" /\ tasks[i].loc.opened /\ tasks[i].loc.created
  /\ \E i \in DOMAIN tasks : tasks[i].loc.overlap

\* C26 as claimed: an incrementProfilePushCount that counts within the
\* window leaves the stored count one above the count stored just before its
\* write, also when another call on the profile wrote between its read and
\* its write.
C26_NoLostUpdate ==
  (last.op = "incrementProfilePushCount.update" /\ last.val.kept)
    => last.val.after = last.val.before + 1

\* C27: an online apiRequest whose response has a non-success status makes
\* one network call and ends like one whose fetch failed: with a handler it
\* stores offline ('true', unless the write fails) and returns the handler's
\* result; without one it throws the error and leaves the preference.
C27_StatusIsFailure ==
  (OnlineRequest /\ lastReq.fetched = "status") =>
    /\ lastReq.net = 1
    /\ lastReq.handler
         => /\ ~lastReq.thrown /\ lastReq.result = lastReq.hres
            /\ pref \in {"true", lastReq.prefBefore}
            /\ lastReq.envOk => pref = "true"
    /\ ~lastReq.handler
         => /\ lastReq.thrown /\ lastReq.result = "HttpStatusError"
            /\ pref = lastReq.prefBefore

C27_Witness ==
  /\ OnlineRequest /\ lastReq.fetched = "status" /\ lastReq.handler
  /\ ~lastReq.thrown /\ lastReq.result = lastReq.hres
  /\ lastReq.prefBefore = "false" /\ pref = "true"

C29_ImportKeepsOwnership ==
  ImportedOwnExport =>
    \A j \in DOMAIN videos :
      \A k \in 1 .. Len(exported.profiles) :
        exported.videos[j].profileId = exported.profiles[k].id
          => videos[j].profileId = k

\* C30 as claimed: of two calls of initializeNativeApp that overlap on a
\* first run at most one inserts the default profile, and the store holds
\* at most one default profile.
C30_SeedsOnceUnderOverlap ==
  /\ ~(\A i \in DOMAIN tasks : tasks[i].pc # "idle" /\ tasks[i].loc.inserted)
  /\ Cardinality({p \in DOMAIN profiles : profiles[p] = createProfileRow(DefaultProfile)}) <= 1

====
